---- MODULE Spec2Model ----
(***************************************************************************)
(* A model of src/vasp/parsers.py (oppvasp): the OUTCAR pattern-scanning   *)
(* parser (OutcarParser over FileIterator), the streaming vasprun.xml      *)
(* parser (IterativeVasprunParser), the whole-document vasprun.xml parser  *)
(* (VasprunParser) and the readers that hand file content to the XML       *)
(* parsers (myFile and the two parsers' own reads).                        *)
(*                                                                         *)
(* Conventions.                                                            *)
(*  - A Python name that may be unbound, or a call that may not have       *)
(*    returned, is a sequence of length 0 or 1: <<>> is "unbound / no      *)
(*    value", <<v>> is the value v.                                        *)
(*  - A line of the OUTCAR file is the record of what each regular         *)
(*    expression of the code finds in it: the captured token (a string),   *)
(*    or "" when the pattern does not match.  float() is modelled on the   *)
(*    tokens: it raises ValueError on a token that matches [0-9.\-]+ but   *)
(*    is no number.                                                        *)
(*  - Python floats are modelled by integers: only integral values occur   *)
(*    in the bounded inputs.                                               *)
(***************************************************************************)
EXTENDS Integers, Sequences, FiniteSets, TLC

\* ------------------------------------------------------------------ bounds

\* Largest value an NSW header line declares.
MaxNSW == 2
\* Longest header-only file (lines matching configuration keys).
MaxHeaderLines == 2
\* Longest body (lines after the NSW header line) of a step file.
MaxLines == 3

\* ------------------------------------------------------- values and tokens

None == <<>>
Some(v) == <<v>>

\* The largest step marker in the inputs: one beyond the largest capacity.
MaxIter == MaxNSW + 1

\* A token every numeric pattern of the code accepts ([0-9.\-]+) but
\* float() rejects.
BadToken == "-"

\* The numbers written in the inputs: the step markers and header values of
\* the OUTCAR files, the vector components of the vasprun.xml documents.
Numbers == 0..(MaxIter + 6)

NumberTokens == { ToString(v) : v \in Numbers }

\* float(token): parsers.py applies float() to every captured group and to
\* every component of a vector's text.
IsNumber(tok) == tok \in NumberTokens
Float(tok) == CHOOSE v \in Numbers : ToString(v) = tok

\* config = { 'IBRION': 0, 'NSW': 0, 'POTIM': 0., ... }
Keys == { "IBRION", "NSW", "POTIM", "TEIN", "TEBEG", "TEEND", "SMASS" }
ConfigDefault == [ k \in Keys |-> 0 ]

\* ------------------------------------------------------------------- lines

\* keys/ktok : the keys whose pattern key+'[ \t]*=[ \t]*([0-9.\-]+)' matches,
\*             and the captured token;
\* iter      : the number of 'Iteration[ \t]*([0-9]+)', -1 when no match;
\* f1, f2    : the two groups of 'FORCES: max atom, RMS ...';
\* toten, ekin, etotal : the groups of the three energy patterns.
BlankLine ==
    [ keys |-> {}, ktok |-> "", iter |-> -1, f1 |-> "", f2 |-> "",
      toten |-> "", ekin |-> "", etotal |-> "" ]

CfgLine(K, tok) == [ BlankLine EXCEPT !.keys = K, !.ktok = tok ]
IterLine(n) == [ BlankLine EXCEPT !.iter = n ]
ForceLine(t1, t2) == [ BlankLine EXCEPT !.f1 = t1, !.f2 = t2 ]
TotenLine(t) == [ BlankLine EXCEPT !.toten = t ]
EkinLine(t) == [ BlankLine EXCEPT !.ekin = t ]
EtotalLine(t) == [ BlankLine EXCEPT !.etotal = t ]

\* Lines of the header-only files: one key, all the other keys, or all keys
\* on a line, with a numeric or a malformed token.
HeaderLines ==
    { CfgLine(K, t) : K \in { {"NSW"}, Keys \ {"NSW"}, Keys },
                      t \in { ToString(v) : v \in 0..MaxNSW } \cup { BadToken } }
      \cup { BlankLine, TotenLine("1") }

\* Lines of the body of a step file.
BodyLines ==
    { IterLine(n) : n \in 0..MaxIter }
      \cup { BlankLine,
             ForceLine("1", "2"), TotenLine("1"), EkinLine("1"),
             EtotalLine("1"), EtotalLine("2"), EkinLine(BadToken),
             [ IterLine(2) EXCEPT !.ekin = "2", !.etotal = "3" ] }

SeqsUpTo(S, n) == UNION { [ 1..m -> S ] : m \in 0..n }

\* The header of a step file: nothing, or the line that declares NSW.
StepHeaders == { <<>> } \cup { << CfgLine({"NSW"}, ToString(v)) >> : v \in 1..MaxNSW }

Files ==
    SeqsUpTo(HeaderLines, MaxHeaderLines)
      \cup { h \o b : h \in StepHeaders, b \in SeqsUpTo(BodyLines, MaxLines) }

\* ------------------------------------------------------------------- state

VARIABLES
    file,           \* FileIterator.contents: the lines of the OUTCAR file
    lineno,         \* FileIterator.lineno
    pc,             \* where the OutcarParser's caller is
    config,         \* OutcarParser.__init__'s config, then self.config
    keys_found,     \* OutcarParser.__init__'s keys_found
    allkeys_found,  \* OutcarParser.__init__'s allkeys_found (unbound at first)
    warned,         \* the keys the "Keys not found" warning printed, if printed
    numsteps,       \* get_ionic_steps' numsteps
    stepno,         \* get_ionic_steps' stepno (unbound at first)
    a,              \* get_ionic_steps' dictionary of arrays
    result,         \* what the last get_ionic_steps call returned, if it did
    err,            \* the exception that ended the last operation, or "none"
    again           \* history: an earlier get_ionic_steps call has ended

outcarVars ==
    << file, lineno, pc, config, keys_found, allkeys_found, warned,
       numsteps, stepno, a, result, err, again >>

VARIABLES
    doc,            \* the elements of the vasprun.xml file, in document order
    truncated,      \* whether malformed (cut off) content follows them
    xpc,            \* where the IterativeVasprunParser's caller is
    nsw,            \* IterativeVasprunParser.nsw
    natoms,         \* IterativeVasprunParser.natoms = len(self.atoms)
    atom_no,        \* IterativeVasprunParser.atom_no
    trajectory,     \* IterativeVasprunParser.trajectory
    step_no,        \* IterativeVasprunParser.step_no
    context,        \* the iterparse context: index of the last element delivered
    warnings,       \* how many "Warning: ..." lines have been printed
    tag,            \* the tag of the last _find_first_instance call
    xret,           \* what the last call returned, if it did
    xerr,           \* the exception that ended the last call, or "none"
    method,         \* the trajectory method that was called last, "" for none
    calls,          \* history: the Trajectory methods called, <<name, argument>>
    visited         \* history: the elements the visitor was invoked on

iterVars ==
    << doc, truncated, xpc, nsw, natoms, atom_no, trajectory, step_no, context,
       warnings, tag, xret, xerr, calls, visited, method >>

VARIABLES
    vdoc,           \* the document in the vasprun.xml file VasprunParser reads
    damage,         \* its well-formedness: "none", "recoverable" or "fatal"
    vpc,            \* where the VasprunParser's caller is
    vtree,          \* VasprunParser.doc, once bound
    vwarn,          \* how many "Warning: ..." lines the constructor printed
    vcall,          \* the last query called
    varg,           \* its argument (atom_no), 0 if it takes none
    vret,           \* what the last query returned, if it did
    verr,           \* the exception that ended the last operation, or "none"
    vmsg            \* the message of that exception

domVars == << vdoc, damage, vpc, vtree, vwarn, vcall, varg, vret, verr, vmsg >>

VARIABLES
    content,        \* the characters of a vasprun.xml file (character codes)
    spc,            \* where the reader's caller is
    fpos,           \* myFile.f: how many characters its file object has read
    readout,        \* the strings myFile.read has returned, in order
    docstr,         \* VasprunParser.__init__'s docstr, once bound
    fed             \* the characters etree.iterparse has read, once it has

readVars == << content, spc, fpos, readout, docstr, fed >>

VARIABLES
    cached,         \* FileIterator.cached
    fileobj,        \* FileIterator.file: how many lines the file object has read
    yielded,        \* history: what next has returned since the last reset
    signal,         \* history: how the last next call ended
    wasreset        \* history: reset has been called after a next

fitVars == << cached, fileobj, yielded, signal, wasreset >>

VARIABLES
    outfile,        \* readItAll's outfile: how many lines it has read
    rpc,            \* where readItAll is
    attrs,          \* the attributes readItAll sets on the parser (self.*)
    rerr            \* the exception that ended readItAll, or "none"

riaVars == << outfile, rpc, attrs, rerr >>

vars == << outcarVars, iterVars, domVars, readVars, fitVars, riaVars >>

\* ------------------------------------------------------------ FileIterator

\* A reset that leaves the cursor on the first line instead of before it.
FileIterator_reset_on_first == -1 + 1
\* FileIterator.reset (cached mode: OutcarParser builds FileIterator(filename)).
FileIterator_reset == -1

\* FileIterator.next in cached mode: lineno += 1, then StopIteration when
\* lineno >= numlines, else "0 " + contents[lineno].  Every pattern of the
\* parser starts with a literal label and is applied with search(), so the
\* "0 " prefix changes no match: the line's match record is returned.
FileIterator_next(ln) ==
    [ lineno |-> ln + 1,
      stop   |-> ln + 1 >= Len(file),
      line   |-> IF ln + 1 < Len(file) /\ ln + 1 >= 0 THEN file[ln + 2] ELSE BlankLine ]

\* ---------------------------------------------- OutcarParser.__init__

\* The body of "for line in self.file" in __init__: for every key, a match
\* stores float(group 1) in config and sets keys_found (with no test of
\* keys_found before the store); allkeys_found is whether every key has been
\* found by now.  float() raises ValueError on a malformed token.
ScanHeaderLine(line, cfg, found) ==
    IF line.keys # {} /\ ~IsNumber(line.ktok)
    THEN [ err |-> "ValueError", config |-> cfg, keys_found |-> found, all |-> FALSE ]
    ELSE LET cfg2   == [ k \in Keys |-> IF k \in line.keys THEN Float(line.ktok) ELSE cfg[k] ]
             found2 == [ k \in Keys |-> found[k] \/ k \in line.keys ]
         IN  [ err |-> "none", config |-> cfg2, keys_found |-> found2,
               all |-> \A k \in Keys : found2[k] ]

\* One turn of the header loop: fetch a line, scan it, break when all keys
\* are found.
OutcarParser_init_line ==
    /\ pc = "init_scan"
    /\ LET nx == FileIterator_next(lineno)
           r  == ScanHeaderLine(nx.line, config, keys_found)
       IN  /\ lineno' = nx.lineno
           /\ IF nx.stop
              THEN /\ pc' = "init_end"
                   /\ UNCHANGED << config, keys_found, allkeys_found, err >>
              ELSE IF r.err # "none"
              THEN /\ pc' = "init_failed"
                   /\ err' = r.err
                   /\ UNCHANGED << config, keys_found, allkeys_found >>
              ELSE /\ config' = r.config
                   /\ keys_found' = r.keys_found
                   /\ allkeys_found' = Some(r.all)
                   /\ pc' = IF r.all THEN "init_end" ELSE "init_scan"
                   /\ err' = err
    /\ UNCHANGED << file, warned, numsteps, stepno, a, result, again >>
    /\ UNCHANGED << iterVars, domVars, readVars, fitVars, riaVars >>

\* After the loop: "if not allkeys_found" reads a name that no turn of the
\* loop has bound when the file has no line; otherwise the warning, then
\* self.config = config and self.file.reset().
OutcarParser_init_end ==
    /\ pc = "init_end"
    /\ IF allkeys_found = None
       THEN /\ pc' = "init_failed"
            /\ err' = "NameError"
            /\ UNCHANGED << warned, lineno >>
       ELSE /\ warned' = IF allkeys_found[1] THEN None
                         ELSE Some({ k \in Keys : ~keys_found[k] })
            /\ lineno' = FileIterator_reset
            /\ pc' = "ready"
            /\ err' = err
    /\ UNCHANGED << file, config, keys_found, allkeys_found, numsteps, stepno, a,
                    result, again >>
    /\ UNCHANGED << iterVars, domVars, readVars, fitVars, riaVars >>

\* ------------------------------------------- OutcarParser.get_ionic_steps

\* np.zeros((numsteps))
Zeros(n) == [ i \in 1..n |-> 0 ]

\* The dictionary a that get_ionic_steps builds: time is np.arange(1,
\* numsteps+1), multiplied by POTIM for an MD run (IBRION = 0).
NewArrays(n, cfg) ==
    [ time   |-> [ i \in 1..n |-> IF cfg["IBRION"] = 0 THEN i * cfg["POTIM"] ELSE i ],
      energy |-> [ ion_electron |-> Zeros(n), ion_kinetic |-> Zeros(n), total |-> Zeros(n) ],
      forces |-> [ max_atom |-> Zeros(n), rms |-> Zeros(n) ] ]

DataArrays == { "max_atom", "rms", "ion_electron", "ion_kinetic", "total" }

GetArray(arrs, name) ==
    CASE name = "max_atom"     -> arrs.forces.max_atom
      [] name = "rms"          -> arrs.forces.rms
      [] name = "ion_electron" -> arrs.energy.ion_electron
      [] name = "ion_kinetic"  -> arrs.energy.ion_kinetic
      [] name = "total"        -> arrs.energy.total

PutArray(arrs, name, arr) ==
    CASE name = "max_atom"     -> [ arrs EXCEPT !.forces.max_atom = arr ]
      [] name = "rms"          -> [ arrs EXCEPT !.forces.rms = arr ]
      [] name = "ion_electron" -> [ arrs EXCEPT !.energy.ion_electron = arr ]
      [] name = "ion_kinetic"  -> [ arrs EXCEPT !.energy.ion_kinetic = arr ]
      [] name = "total"        -> [ arrs EXCEPT !.energy.total = arr ]

\* numpy's arr[idx] = v on a one-dimensional array of length n: idx in
\* 0..n-1 is the slot, idx in -n..-1 counts from the end, anything else
\* raises IndexError.  (Sequences are 1-based: slot idx is arr[idx + 1].)
NpSetItem(arr, idx, v) ==
    LET n == Len(arr)
    IN  IF idx >= 0 /\ idx < n THEN [ ok |-> TRUE, arr |-> [ arr EXCEPT ![idx + 1] = v ] ]
        ELSE IF idx < 0 /\ idx >= -n THEN [ ok |-> TRUE, arr |-> [ arr EXCEPT ![n + idx + 1] = v ] ]
        ELSE [ ok |-> FALSE, arr |-> arr ]

StepIndexSameAsMarker(n) == n
StepIndexTwoBelow(n) == n - 2
\* The subscript stepno-1 of every store of get_ionic_steps.
StepIndex(n) == n - 1

\* The locals of get_ionic_steps that the loop body reads and writes.
\* st = [stepno, a, err]; a statement after a raised exception does not run.

\* m = re.search('Iteration...'); if m: stepno = int(m.group(1))
MarkerStatement(st, line) ==
    IF st.err = "none" /\ line.iter # -1
    THEN [ st EXCEPT !.stepno = Some(line.iter) ]
    ELSE st

\* a[..][name][stepno-1] = float(tok), when the pattern matched (tok # ""):
\* Python evaluates float(tok) first (ValueError), then the subscript stepno-1
\* (NameError: UnboundLocalError when no marker has bound stepno), then the
\* store (IndexError).
StoreStatement(st, name, tok) ==
    IF st.err # "none" \/ tok = "" THEN st
    ELSE IF ~IsNumber(tok) THEN [ st EXCEPT !.err = "ValueError" ]
    ELSE IF st.stepno = None THEN [ st EXCEPT !.err = "NameError" ]
    ELSE LET w == NpSetItem(GetArray(st.a, name), StepIndex(st.stepno[1]), Float(tok))
         IN  IF w.ok THEN [ st EXCEPT !.a = PutArray(st.a, name, w.arr) ]
             ELSE [ st EXCEPT !.err = "IndexError" ]

\* The loop body with the marker test moved below the four data tests.
ScanStepLineMarkerLast(st, line) ==
    LET s2 == StoreStatement(st, "max_atom", line.f1)
        s3 == StoreStatement(s2, "rms", line.f2)
        s4 == StoreStatement(s3, "ion_electron", line.toten)
        s5 == StoreStatement(s4, "ion_kinetic", line.ekin)
    IN  MarkerStatement(StoreStatement(s5, "total", line.etotal), line)

\* The loop body: the five pattern tests, each an "if" of its own, in the
\* order of the source.
ScanStepLine(st, line) ==
    LET s1 == MarkerStatement(st, line)
        s2 == StoreStatement(s1, "max_atom", line.f1)
        s3 == StoreStatement(s2, "rms", line.f2)
        s4 == StoreStatement(s3, "ion_electron", line.toten)
        s5 == StoreStatement(s4, "ion_kinetic", line.ekin)
    IN  StoreStatement(s5, "total", line.etotal)

\* The locals of get_ionic_steps at the top of its loop; stepno is bound
\* by nothing before the first marker.
StepnoAtEntryZero == Some(0)
StepnoAtEntry == None

\* get_ionic_steps up to its loop: reset the iterator, size the arrays.
OutcarParser_get_ionic_steps ==
    /\ pc \in { "ready", "returned", "failed" }
    /\ lineno' = FileIterator_reset
    /\ numsteps' = config["NSW"]
    /\ a' = NewArrays(config["NSW"], config)
    /\ stepno' = StepnoAtEntry
    /\ result' = None
    /\ err' = "none"
    /\ pc' = "scan"
    /\ again' = (again \/ pc \in { "returned", "failed" })
    /\ UNCHANGED << file, config, keys_found, allkeys_found, warned >>
    /\ UNCHANGED << iterVars, domVars, readVars, fitVars, riaVars >>

\* One turn of "for line in self.file": the iterator ends the loop and the
\* function returns a, or the line is scanned; an exception leaves the
\* function with nothing returned.
OutcarParser_get_ionic_steps_line ==
    /\ pc = "scan"
    /\ LET nx == FileIterator_next(lineno)
           st == ScanStepLine([ stepno |-> stepno, a |-> a, err |-> "none" ], nx.line)
       IN  /\ lineno' = nx.lineno
           /\ IF nx.stop
              THEN /\ pc' = "returned"
                   /\ result' = Some(a)
                   /\ UNCHANGED << stepno, a, err >>
              ELSE /\ stepno' = st.stepno
                   /\ a' = st.a
                   /\ err' = st.err
                   /\ pc' = IF st.err = "none" THEN "scan" ELSE "failed"
                   /\ result' = result
    /\ UNCHANGED << file, config, keys_found, allkeys_found, warned, numsteps, again >>
    /\ UNCHANGED << iterVars, domVars, readVars, fitVars, riaVars >>

\* ------------------------------------------------- the OUTCAR specification

OutcarInit ==
    /\ file \in Files
    /\ lineno = FileIterator_reset
    /\ pc = "init_scan"
    /\ config = ConfigDefault
    /\ keys_found = [ k \in Keys |-> FALSE ]
    /\ allkeys_found = None
    /\ warned = None
    /\ numsteps = 0
    /\ stepno = None
    /\ a = NewArrays(0, ConfigDefault)
    /\ result = None
    /\ err = "none"
    /\ again = FALSE
    \* the IterativeVasprunParser is not in use
    /\ doc = <<>>
    /\ truncated = FALSE
    /\ xpc = "parked"
    /\ nsw = 0
    /\ natoms = 0
    /\ atom_no = -1
    /\ trajectory = None
    /\ step_no = 0
    /\ context = 0
    /\ warnings = 0
    /\ tag = ""
    /\ xret = None
    /\ xerr = "none"
    /\ method = ""
    /\ calls = <<>>
    /\ visited = <<>>
    \* the VasprunParser is not in use
    /\ vdoc = None
    /\ damage = "none"
    /\ vpc = "parked"
    /\ vtree = None
    /\ vwarn = 0
    /\ vcall = ""
    /\ varg = 0
    /\ vret = None
    /\ verr = "none"
    /\ vmsg = ""
    \* no reader is in use
    /\ content = <<>>
    /\ spc = "parked"
    /\ fpos = 0
    /\ readout = <<>>
    /\ docstr = None
    /\ fed = None
    \* no FileIterator is iterated by hand
    /\ cached = TRUE
    /\ fileobj = 0
    /\ yielded = <<>>
    /\ signal = "none"
    /\ wasreset = FALSE
    \* readItAll is not in use
    /\ outfile = 0
    /\ rpc = "parked"
    /\ attrs = None
    /\ rerr = "none"

OutcarNext ==
    \/ OutcarParser_init_line
    \/ OutcarParser_init_end
    \/ OutcarParser_get_ionic_steps
    \/ OutcarParser_get_ionic_steps_line

SpecOutcar == OutcarInit /\ [][OutcarNext]_vars

\* ---------------------------------------- what the claims say, OUTCAR part

Max(S) == CHOOSE x \in S : \A y \in S : y <= x
Min(S) == CHOOSE x \in S : \A y \in S : x <= y

\* The token a line holds for a data array, "" when its pattern is absent.
DataTok(line, name) ==
    CASE name = "max_atom"     -> line.f1
      [] name = "rms"          -> line.f2
      [] name = "ion_electron" -> line.toten
      [] name = "ion_kinetic"  -> line.ekin
      [] name = "total"        -> line.etotal

IsDataLine(line) == \E name \in DataArrays : DataTok(line, name) # ""

\* The number of the most recent step marker at line j of the file (the
\* marker of line j itself included), -1 when there is none.
CurMarker(j) ==
    LET M == { i \in 1..j : file[i].iter # -1 }
    IN  IF M = {} THEN -1 ELSE file[Max(M)].iter

InScan == pc \in { "scan", "returned", "failed" }

\* How many lines the running (or finished) scan of get_ionic_steps has
\* fetched and scanned.
ScannedCount == IF lineno + 1 < Len(file) THEN lineno + 1 ELSE Len(file)

\* C1 -- get_ionic_steps, when every data line follows a marker Iteration n
\* with 1 <= n <= NSW: each returned array holds at index i the value of the
\* last matching data line seen while the most recent marker was i+1, and 0
\* where there is none, whatever the order of the marker numbers.
C1_Precondition ==
    \A j \in 1..Len(file) : IsDataLine(file[j]) => CurMarker(j) \in 1..numsteps

C1_Expected(name, i) ==
    LET J == { j \in 1..Len(file) : DataTok(file[j], name) # "" /\ CurMarker(j) = i + 1 }
    IN  IF J = {} THEN 0 ELSE Float(DataTok(file[Max(J)], name))

\* C1 -- after a returned scan, slot n-1 of every data array holds the last
\* value found under marker Iteration n (0 where none was found).
C1_StepTakenFromMarker ==
    (pc = "returned" /\ C1_Precondition) =>
        \A name \in DataArrays :
            /\ Len(GetArray(result[1], name)) = numsteps
            /\ \A i \in 0..(numsteps - 1) :
                   GetArray(result[1], name)[i + 1] = C1_Expected(name, i)

\* A returned scan whose data lines came with marker 2 first and marker 1
\* later, both stored.
C1_Witness ==
    /\ pc = "returned"
    /\ C1_Precondition
    /\ \E j1, j2 \in 1..Len(file) :
           /\ j1 < j2
           /\ IsDataLine(file[j1]) /\ CurMarker(j1) = 2
           /\ IsDataLine(file[j2]) /\ CurMarker(j2) = 1
    /\ \E n1, n2 \in DataArrays :
           GetArray(result[1], n1)[1] # 0 /\ GetArray(result[1], n2)[2] # 0

\* C2 -- a data line scanned before any step marker aborts get_ionic_steps
\* with a fatal error: nothing is returned and no slot has been written.
C2_Case ==
    /\ InScan
    /\ \E j \in 1..ScannedCount : IsDataLine(file[j]) /\ CurMarker(j) = -1

\* C2 -- a data line met before any Iteration marker ends the scan with a
\* NameError; nothing is stored and nothing is returned.
C2_DataBeforeMarkerIsFatal ==
    C2_Case =>
        /\ pc = "failed"
        /\ err \in { "NameError", "ValueError" }
        /\ result = None
        /\ a = NewArrays(numsteps, config)

C2_Witness ==
    /\ C2_Case
    /\ pc = "failed"
    /\ err = "NameError"
    /\ numsteps >= 1

\* C3 (as amended) -- a data line scanned while the most recent marker number
\* exceeds NSW makes get_ionic_steps fail (IndexError; ValueError when the
\* line's token is no number) with nothing returned, and the arrays always
\* have exactly NSW entries.
C3_Case ==
    /\ InScan
    /\ \E j \in 1..ScannedCount : IsDataLine(file[j]) /\ CurMarker(j) > numsteps

\* C3 (as amended) -- a data line stored under a marker beyond NSW ends the
\* scan with an error; the arrays keep their NSW slots and nothing is returned.
C3_StoreBeyondCapacityFails ==
    /\ C3_Case =>
           /\ pc = "failed"
           /\ err \in { "IndexError", "ValueError" }
           /\ result = None
    /\ InScan =>
           /\ \A name \in DataArrays : Len(GetArray(a, name)) = numsteps
           /\ Len(a.time) = numsteps

C3_Witness ==
    /\ C3_Case
    /\ pc = "failed"
    /\ err = "IndexError"

\* C3 (as claimed) -- a marker Iteration n with n > NSW makes the scan fail:
\* no scan that met such a marker returns.
C3_MarkerBeyondCapacityFails ==
    pc = "returned" => \A j \in 1..Len(file) : file[j].iter <= numsteps

\* C4 -- the header scan records, for each key, the value of the first line
\* that matches it.
C4_FirstMatch(k) == Min({ j \in 1..Len(file) : k \in file[j].keys })

\* C4 -- after construction each key found in the header holds the value of
\* its first matching line.
C4_FirstMatchIsRecorded ==
    pc # "init_failed" =>
        \A k \in Keys : keys_found[k] => config[k] = Float(file[C4_FirstMatch(k)].ktok)

\* C5 -- constructing OutcarParser never ends in a fatal error (stated for
\* the files whose tokens are all numbers): keys no line matched keep the
\* default 0 and are reported by the warning.
C5_TokensAreNumbers ==
    \A j \in 1..Len(file) : file[j].keys # {} => IsNumber(file[j].ktok)

\* C5 -- construction never fails: it always reaches the end of the header
\* scan, with missing keys left at 0 and reported by the warning.
C5_ConstructionNeverFatal ==
    C5_TokensAreNumbers =>
        /\ pc # "init_failed"
        /\ pc \notin { "init_scan", "init_end" } =>
               /\ \A k \in Keys : ~keys_found[k] => config[k] = 0
               /\ warned = IF \A k \in Keys : keys_found[k] THEN None
                           ELSE Some({ k \in Keys : ~keys_found[k] })

\* The values the data lines scanned under marker n hold for array name.
ValuesUnderMarker(name, n) ==
    { Float(DataTok(file[j], name)) :
        j \in { k \in 1..ScannedCount : /\ CurMarker(k) = n
                                        /\ IsNumber(DataTok(file[k], name)) } }

\* C18 -- a slot i of an array only ever holds 0 or a value scanned under
\* marker i+1, and a data line scanned under the marker Iteration 0 ends the
\* scan with an error, so that nothing is returned.
C18_NoStoreUnderOtherMarker ==
    InScan =>
        /\ \A name \in DataArrays : \A i \in 1..Len(GetArray(a, name)) :
               GetArray(a, name)[i] \in { 0 } \cup ValuesUnderMarker(name, i)
        /\ (\E j \in 1..ScannedCount : IsDataLine(file[j]) /\ CurMarker(j) = 0) =>
               (pc = "failed" /\ result = None)

\* The locals of get_ionic_steps after a scan of the first k lines of the
\* file, begun on fresh arrays (a scan stops at the first exception).
RECURSIVE ScanOfFirst(_)
ScanOfFirst(k) ==
    IF k = 0
    THEN [ stepno |-> None, a |-> NewArrays(config["NSW"], config), err |-> "none" ]
    ELSE LET p == ScanOfFirst(k - 1)
         IN  IF p.err # "none" THEN p ELSE ScanStepLine(p, file[k])

\* C21 -- construction leaves the line cursor at the start, and every
\* get_ionic_steps call, the first as any later one, scans all lines from the
\* first: what it holds, returns or fails with is what a scan of the file
\* from its first line on fresh arrays gives, whatever line the header scan
\* stopped at and whatever calls came before.
C21_EveryCallScansFromStart ==
    /\ pc = "ready" => lineno = -1
    /\ pc = "scan" =>
           [ stepno |-> stepno, a |-> a, err |-> err ] = ScanOfFirst(lineno + 1)
    /\ pc = "returned" =>
           /\ ScanOfFirst(Len(file)).err = "none"
           /\ result = Some(ScanOfFirst(Len(file)).a)
    /\ pc = "failed" =>
           /\ result = None
           /\ err # "none"
           /\ err = ScanOfFirst(lineno + 1).err

\* A second (or later) call has returned arrays that hold a value.
C21_Witness ==
    /\ pc = "returned"
    /\ again
    /\ \E name \in DataArrays : \E i \in 1..numsteps : GetArray(result[1], name)[i] # 0

\* The line the scan of get_ionic_steps took last.
LastScanned == lineno + 1

\* The slot of an array of numsteps entries that the subscript m-1 names
\* (the last one for m = 0).
SlotOfMarker(m) == IF m >= 1 THEN m ELSE numsteps + m

\* C25 -- the five pattern tests of get_ionic_steps are applied to every
\* line independently, marker first: after a line has been scanned, stepno is
\* the marker of that line if it has one, and every data pattern the line
\* matches has stored its value in the slot that this stepno names; a scan
\* fails only on a line that matches a data pattern.
C25_AllMatchesApplyMarkerFirst ==
    /\ (pc = "scan" /\ lineno >= 0) =>
           LET line == file[LastScanned]
               mk   == CurMarker(LastScanned)
           IN  /\ stepno = (IF mk = -1 THEN None ELSE Some(mk))
               /\ line.iter # -1 => stepno = Some(line.iter)
               /\ \A name \in DataArrays :
                      DataTok(line, name) # "" =>
                          GetArray(a, name)[SlotOfMarker(mk)] = Float(DataTok(line, name))
    /\ pc = "failed" => IsDataLine(file[LastScanned])

\* A line with a marker and two data patterns has been scanned after another
\* marker: both values are in the slot of the line's own marker, none in the
\* slot of the marker before.
C25_Witness ==
    /\ pc = "scan"
    /\ lineno >= 1
    /\ LET line == file[LastScanned]
           prev == CurMarker(LastScanned - 1)
       IN  /\ line.iter \in 1..numsteps
           /\ prev \in 1..numsteps
           /\ prev # line.iter
           /\ line.ekin # "" /\ line.etotal # ""
           /\ a.energy.ion_kinetic[line.iter] = Float(line.ekin)
           /\ a.energy.total[line.iter] = Float(line.etotal)
           /\ a.energy.ion_kinetic[prev] = 0
           /\ a.energy.total[prev] = 0

\* ------------------------------------------------- vasprun.xml documents

\* Most calculation elements in a document.
MaxCalcs == 3
\* Most atoms in a document.
MaxAtoms == 2

\* An element of the document, with what the parser's xpath queries read
\* from it: incar holds NSW (and POTIM, which is only passed through to the
\* Trajectory and is left out); atominfo lists natoms atoms; a calculation
\* numbered v holds a structure (basis, one position per atom), an energy
\* section with e_fr_energy (etot) and possibly kinetic (kin).
Element(t, w, n, v, kin, etot) ==
    [ tag |-> t, nsw |-> w, natoms |-> n, v |-> v, kin |-> kin, etot |-> etot ]

IncarElem(w) == Element("incar", w, 0, 0, FALSE, FALSE)
AtominfoElem(n) == Element("atominfo", 0, n, 0, FALSE, FALSE)
StructureElem(n) == Element("structure", 0, n, 0, FALSE, FALSE)
CalcElem(n, v, kin, etot) == Element("calculation", 0, n, v, kin, etot)

\* The values the xpath queries of _calculation_tag_found and
\* _get_initial_positions return for an element.
Basis(e) == 10 * e.v + 1
Positions(e) == [ j \in 1..e.natoms |-> 100 * e.v + j ]
EKinetic(e) == 10 * e.v + 2
ETotal(e) == 10 * e.v + 3

Heads(n) ==
    { i \o t \o st :
        i  \in { <<>> } \cup { << IncarElem(w) >> : w \in 0..MaxNSW },
        t  \in { <<>>, << AtominfoElem(n) >> },
        st \in { <<>>, << StructureElem(n) >> } }

CalcElems(n) ==
    { CalcElem(n, 1, TRUE, TRUE), CalcElem(n, 2, TRUE, TRUE),
      CalcElem(n, 1, FALSE, TRUE), CalcElem(n, 1, TRUE, FALSE) }

Docs ==
    UNION { { h \o c : h \in Heads(n), c \in SeqsUpTo(CalcElems(n), MaxCalcs) } :
            n \in 1..MaxAtoms }

\* ---------------------------------------------------------- etree.iterparse

\* Whether iterparse(filename, tag=t) delivers an event for (or inside)
\* element e: the element itself, or the structure nested in a calculation.
Delivers(e, t) == e.tag = t \/ (t = "structure" /\ e.tag = "calculation")

\* The next event of an iterparse context that has delivered element number
\* c: the next matching element, else the end of the document, which is
\* XMLSyntaxError when the document is cut off and StopIteration otherwise.
IterparseNext(t, c) ==
    LET M == { i \in (c + 1)..Len(doc) : Delivers(doc[i], t) }
    IN  IF M # {} THEN [ event |-> "end", index |-> Min(M) ]
        ELSE IF truncated THEN [ event |-> "XMLSyntaxError", index |-> 0 ]
        ELSE [ event |-> "StopIteration", index |-> 0 ]

\* parser = etree.XMLParser() in _get_trajectories: a parser that iterparse
\* is never given, so that it has parsed nothing and its error_log is empty.
ParserErrorLog == <<>>

\* --------------------------------------------------- Trajectory (oppvasp.md)

\* Trajectory(num_steps, timestep, atoms): per-step arrays of num_steps
\* zero entries.
NewTrajectory(n, na) ==
    [ num_steps |-> n, num_atoms |-> na, length |-> n,
      basis |-> Zeros(n),
      positions |-> [ i \in 1..n |-> Zeros(na) ],
      velocities |-> [ i \in 1..n |-> Zeros(na) ],
      e_kinetic |-> Zeros(n), e_total |-> Zeros(n) ]

\* set_basis, set_positions, set_e_kinetic, set_e_total: a write into the
\* pre-allocated slot of the step; beyond the capacity it is IndexError.
TrajectorySet(tr, field, step, v) ==
    IF step < 0 \/ step >= tr.num_steps
    THEN [ err |-> "IndexError", tr |-> tr ]
    ELSE [ err |-> "none",
           tr  |-> CASE field = "basis"     -> [ tr EXCEPT !.basis[step + 1] = v ]
                     [] field = "positions" -> [ tr EXCEPT !.positions[step + 1] = v ]
                     [] field = "e_kinetic" -> [ tr EXCEPT !.e_kinetic[step + 1] = v ]
                     [] field = "e_total"   -> [ tr EXCEPT !.e_total[step + 1] = v ] ]

\* update_length(n): every per-step array is cut to its first n entries.
TrajectoryUpdateLength(tr, n) ==
    [ tr EXCEPT !.length = n,
                !.basis = SubSeq(tr.basis, 1, n),
                !.positions = SubSeq(tr.positions, 1, n),
                !.velocities = SubSeq(tr.velocities, 1, n),
                !.e_kinetic = SubSeq(tr.e_kinetic, 1, n),
                !.e_total = SubSeq(tr.e_total, 1, n) ]

\* ------------------------------------------------ IterativeVasprunParser

\* What the visitor functions passed to _find_first_instance return:
\* _incar_tag_found (a copy of the element), _get_atoms (one entry per atom),
\* _get_initial_positions (basis, positions, velocities of the structure).
CallVisitor(func, e) ==
    CASE func = "_incar_tag_found"       -> e
      [] func = "_get_atoms"             -> Zeros(e.natoms)
      [] func = "_get_initial_positions" ->
             [ basis |-> Basis(e), positions |-> Positions(e), velocities |-> <<>> ]

\* The indices of the elements for which iterparse(filename, tag=t) delivers
\* an event, in document order.
Matches(t) == SelectSeq([ i \in 1..Len(doc) |-> i ], LAMBDA i : Delivers(doc[i], t))

\* The loop of _find_first_instance without its break: func is called on
\* every match and the scan runs to the end of the document.
FindFirstInstanceNoBreak(t, func) ==
    LET ms == Matches(t)
    IN  IF truncated THEN [ err |-> "XMLSyntaxError", ret |-> None, visits |-> ms ]
        ELSE IF ms = <<>> THEN [ err |-> "NameError", ret |-> None, visits |-> ms ]
        ELSE [ err |-> "none", visits |-> ms,
               ret |-> Some(CallVisitor(func, doc[ms[Len(ms)]])) ]

\* _find_first_instance(tag, func): the loop body runs for the first event
\* only (break) and binds ret; "return ret" reads a name the loop has not
\* bound when no event came (UnboundLocalError, a NameError); a malformed
\* end of the document met before any match raises XMLSyntaxError.
\* visits: the elements func was called on.
FindFirstInstance(t, func) ==
    LET nx == IterparseNext(t, 0)
    IN  CASE nx.event = "end"            ->
                [ err |-> "none", visits |-> << nx.index >>,
                  ret |-> Some(CallVisitor(func, doc[nx.index])) ]
          [] nx.event = "XMLSyntaxError" -> [ err |-> "XMLSyntaxError", ret |-> None, visits |-> <<>> ]
          [] nx.event = "StopIteration"  -> [ err |-> "NameError", ret |-> None, visits |-> <<>> ]

\* __init__: incar -> nsw, then atominfo -> atoms, natoms.
IterativeVasprunParser_init ==
    /\ xpc = "new"
    /\ LET r1 == FindFirstInstance("incar", "_incar_tag_found")
           r2 == FindFirstInstance("atominfo", "_get_atoms")
       IN  IF r1.err # "none"
           THEN /\ tag' = "incar" /\ xerr' = r1.err /\ xpc' = "init_failed"
                /\ UNCHANGED << nsw, natoms >>
           ELSE IF r2.err # "none"
           THEN /\ tag' = "atominfo" /\ xerr' = r2.err /\ xpc' = "init_failed"
                /\ nsw' = r1.ret[1].nsw
                /\ UNCHANGED natoms
           ELSE /\ tag' = "atominfo" /\ xerr' = "none" /\ xpc' = "ready"
                /\ nsw' = r1.ret[1].nsw
                /\ natoms' = Len(r2.ret[1])
    /\ UNCHANGED << doc, truncated, atom_no, trajectory, step_no, context,
                    warnings, xret, method, calls, visited >>
    /\ UNCHANGED << outcarVars, domVars, readVars, fitVars, riaVars >>

\* The parser is constructed and no call is running.
IterIdle == xpc \in { "ready", "structure_done", "structure_failed", "returned", "traj_failed" }

\* get_initial_structure: _find_first_instance('structure', ...).
IterativeVasprunParser_get_initial_structure ==
    /\ IterIdle
    /\ LET r == FindFirstInstance("structure", "_get_initial_positions")
       IN  /\ tag' = "structure"
           /\ xerr' = r.err
           /\ xret' = r.ret
           /\ xpc' = IF r.err = "none" THEN "structure_done" ELSE "structure_failed"
           /\ visited' = r.visits
    /\ UNCHANGED << doc, truncated, nsw, natoms, atom_no, trajectory, step_no,
                    context, warnings, method, calls >>
    /\ UNCHANGED << outcarVars, domVars, readVars, fitVars, riaVars >>

\* The xpath step v[k] on a list of v elements: the k-th (from 1), or nothing.
XPathPick(vs, k) == IF k >= 1 /\ k <= Len(vs) THEN << vs[k] >> ELSE <<>>

\* One Trajectory call of the visitor: st = [tr, calls, step_no, err].
VisitorSet(st, field, v) ==
    IF st.err # "none" THEN st
    ELSE LET w == TrajectorySet(st.tr, field, st.step_no, v)
         IN  [ st EXCEPT !.tr = w.tr, !.err = w.err,
                         !.calls = Append(st.calls, << "set_" \o field, st.step_no >>) ]

StepNoUnchanged(n) == n
\* self.step_no += 1
StepNoIncrement(n) == n + 1

\* _calculation_tag_found(elem): basis; positions (all of them, or v[atom_no+1]
\* when the trajectory has one atom); kinetic energy if present; total energy
\* (e_pot[0] is IndexError when e_fr_energy is absent); step_no += 1.
\* accepts: whether the Trajectory takes a positions list whose length is not
\* num_atoms (it raises ValueError if not).
CalculationTagFound(st, e, an, accepts) ==
    LET s1  == VisitorSet(st, "basis", Basis(e))
        p   == IF st.tr.num_atoms = 1 THEN XPathPick(Positions(e), an + 1) ELSE Positions(e)
        s2  == IF s1.err = "none" /\ Len(p) # st.tr.num_atoms /\ ~accepts
               THEN [ s1 EXCEPT !.err = "ValueError" ]
               ELSE VisitorSet(s1, "positions", p)
        s3  == IF e.kin THEN VisitorSet(s2, "e_kinetic", EKinetic(e)) ELSE s2
        s4  == IF s3.err = "none" /\ ~e.etot THEN [ s3 EXCEPT !.err = "IndexError" ]
               ELSE VisitorSet(s3, "e_total", ETotal(e))
    IN  IF s4.err = "none" THEN [ s4 EXCEPT !.step_no = StepNoIncrement(s4.step_no) ] ELSE s4

\* get_all_trajectories up to the scan: atom_no = -1, a new Trajectory of
\* nsw steps, step_no = 0, a new iterparse context.
IterativeVasprunParser_get_all_trajectories ==
    /\ IterIdle
    /\ method' = "get_all_trajectories"
    /\ atom_no' = -1
    /\ trajectory' = NewTrajectory(nsw, natoms)
    /\ step_no' = 0
    /\ context' = 0
    /\ warnings' = 0
    /\ calls' = <<>>
    /\ visited' = <<>>
    /\ xret' = None
    /\ xerr' = "none"
    /\ xpc' = "iter"
    /\ UNCHANGED << doc, truncated, nsw, natoms, tag >>
    /\ UNCHANGED << outcarVars, domVars, readVars, fitVars, riaVars >>

ScanCatchesAll(e) == TRUE
\* except etree.XMLSyntaxError: in _get_trajectories.
ScanCatches(e) == e = "XMLSyntaxError"

\* What _get_trajectories does with an exception e that left _fast_iter:
\* caught, it prints one warning per entry of parser.error_log and goes on;
\* otherwise the call fails with e.
AfterException(e) ==
    IF ScanCatches(e)
    THEN /\ warnings' = warnings + Len(ParserErrorLog)
         /\ xpc' = "after_iter"
         /\ xerr' = xerr
    ELSE /\ warnings' = warnings
         /\ xpc' = "traj_failed"
         /\ xerr' = e

\* One turn of the loop of _fast_iter: the next calculation element is
\* visited (then cleared, and its earlier siblings deleted), or the context
\* ends.
IterativeVasprunParser_fast_iter ==
    /\ xpc = "iter"
    /\ LET nx == IterparseNext("calculation", context)
       IN  IF nx.event = "end"
           THEN \E accepts \in BOOLEAN :
                  LET st == CalculationTagFound(
                                [ tr |-> trajectory, calls |-> calls,
                                  step_no |-> step_no, err |-> "none" ],
                                doc[nx.index], atom_no, accepts)
                  IN  /\ context' = nx.index
                      /\ visited' = Append(visited, nx.index)
                      /\ trajectory' = st.tr
                      /\ calls' = st.calls
                      /\ step_no' = st.step_no
                      /\ IF st.err = "none"
                         THEN /\ xpc' = "iter" /\ UNCHANGED << warnings, xerr >>
                         ELSE AfterException(st.err)
           ELSE /\ IF nx.event = "XMLSyntaxError"
                   THEN AfterException("XMLSyntaxError")
                   ELSE /\ xpc' = "after_iter" /\ UNCHANGED << warnings, xerr >>
                /\ UNCHANGED << context, visited, trajectory, calls, step_no >>
    /\ UNCHANGED << doc, truncated, nsw, natoms, atom_no, tag, xret, method >>
    /\ UNCHANGED << outcarVars, domVars, readVars, fitVars, riaVars >>

\* The end of _get_trajectories and of get_all_trajectories:
\* update_length(step_no), then return self.trajectory.
IterativeVasprunParser_get_trajectories_end ==
    /\ xpc = "after_iter"
    /\ method = "get_all_trajectories"
    /\ trajectory' = TrajectoryUpdateLength(trajectory, step_no)
    /\ calls' = Append(calls, << "update_length", step_no >>)
    /\ xret' = Some(trajectory')
    /\ xpc' = "returned"
    /\ UNCHANGED << doc, truncated, nsw, natoms, atom_no, step_no, context,
                    warnings, tag, xerr, method, visited >>
    /\ UNCHANGED << outcarVars, domVars, readVars, fitVars, riaVars >>

\* The atom numbers get_single_trajectory is called with: every index of an
\* atom, and the first one beyond.
AtomNumbers == 0..MaxAtoms

\* get_single_trajectory(atom_no) up to the scan: self.atom_no = atom_no,
\* then _get_trajectories as for get_all_trajectories (the Trajectory is
\* built for self.get_atoms(), all the atoms).
IterativeVasprunParser_get_single_trajectory ==
    /\ IterIdle
    /\ method' = "get_single_trajectory"
    /\ \E n \in AtomNumbers : atom_no' = n
    /\ trajectory' = NewTrajectory(nsw, natoms)
    /\ step_no' = 0
    /\ context' = 0
    /\ warnings' = 0
    /\ calls' = <<>>
    /\ visited' = <<>>
    /\ xret' = None
    /\ xerr' = "none"
    /\ xpc' = "iter"
    /\ UNCHANGED << doc, truncated, nsw, natoms, tag >>
    /\ UNCHANGED << outcarVars, domVars, readVars, fitVars, riaVars >>

\* The end of _get_trajectories and of get_single_trajectory:
\* update_length(step_no), then self.traj['positions'] = ...: the parser has
\* no attribute traj (AttributeError), and the return is not reached.
IterativeVasprunParser_get_single_trajectory_end ==
    /\ xpc = "after_iter"
    /\ method = "get_single_trajectory"
    /\ trajectory' = TrajectoryUpdateLength(trajectory, step_no)
    /\ calls' = Append(calls, << "update_length", step_no >>)
    /\ xret' = None
    /\ xerr' = "AttributeError"
    /\ xpc' = "traj_failed"
    /\ UNCHANGED << doc, truncated, nsw, natoms, atom_no, step_no, context,
                    warnings, tag, method, visited >>
    /\ UNCHANGED << outcarVars, domVars, readVars, fitVars, riaVars >>

\* ------------------------------------------- the vasprun.xml specification

IterInit ==
    /\ doc \in Docs
    /\ truncated \in BOOLEAN
    /\ xpc = "new"
    /\ nsw = 0
    /\ natoms = 0
    /\ atom_no = -1
    /\ trajectory = None
    /\ step_no = 0
    /\ context = 0
    /\ warnings = 0
    /\ tag = ""
    /\ xret = None
    /\ xerr = "none"
    /\ method = ""
    /\ calls = <<>>
    /\ visited = <<>>
    \* the OutcarParser is not in use
    /\ file = <<>>
    /\ lineno = FileIterator_reset
    /\ pc = "parked"
    /\ config = ConfigDefault
    /\ keys_found = [ k \in Keys |-> FALSE ]
    /\ allkeys_found = None
    /\ warned = None
    /\ numsteps = 0
    /\ stepno = None
    /\ a = NewArrays(0, ConfigDefault)
    /\ result = None
    /\ err = "none"
    /\ again = FALSE
    \* the VasprunParser is not in use
    /\ vdoc = None
    /\ damage = "none"
    /\ vpc = "parked"
    /\ vtree = None
    /\ vwarn = 0
    /\ vcall = ""
    /\ varg = 0
    /\ vret = None
    /\ verr = "none"
    /\ vmsg = ""
    \* no reader is in use
    /\ content = <<>>
    /\ spc = "parked"
    /\ fpos = 0
    /\ readout = <<>>
    /\ docstr = None
    /\ fed = None
    \* no FileIterator is iterated by hand
    /\ cached = TRUE
    /\ fileobj = 0
    /\ yielded = <<>>
    /\ signal = "none"
    /\ wasreset = FALSE
    \* readItAll is not in use
    /\ outfile = 0
    /\ rpc = "parked"
    /\ attrs = None
    /\ rerr = "none"

IterNext ==
    \/ IterativeVasprunParser_init
    \/ IterativeVasprunParser_get_initial_structure
    \/ IterativeVasprunParser_get_all_trajectories
    \/ IterativeVasprunParser_fast_iter
    \/ IterativeVasprunParser_get_trajectories_end
    \/ IterativeVasprunParser_get_single_trajectory
    \/ IterativeVasprunParser_get_single_trajectory_end

SpecIterative == IterInit /\ [][IterNext]_vars

\* ----------------------------------- what the claims say, vasprun.xml part

\* The indices of the calculation elements, in document order.
CalcSeq == SelectSeq([ i \in 1..Len(doc) |-> i ], LAMBDA i : doc[i].tag = "calculation")

\* Every calculation element has its e_fr_energy entry.
CalcsComplete == \A j \in 1..Len(CalcSeq) : doc[CalcSeq[j]].etot

\* A get_all_trajectories call is running or has ended / has ended.
TrajActive == xpc \in { "iter", "after_iter", "returned", "traj_failed" }
TrajOver == xpc \in { "returned", "traj_failed" }

\* The call returned after visiting every calculation element in document
\* order, and step j of the trajectory holds the values of the j-th of them.
TrajectoryHoldsDocument ==
    /\ xpc = "returned"
    /\ visited = CalcSeq
    /\ step_no = Len(CalcSeq)
    /\ \A j \in 1..Len(CalcSeq) :
           LET e == doc[CalcSeq[j]]
           IN  /\ trajectory.basis[j] = Basis(e)
               /\ trajectory.positions[j] = Positions(e)
               /\ trajectory.e_total[j] = ETotal(e)
               /\ trajectory.e_kinetic[j] = IF e.kin THEN EKinetic(e) ELSE 0

\* C6 -- on a well-formed document with k <= NSW calculation elements,
\* get_all_trajectories visits each of them once, in document order, so that
\* step_no = k and step i holds basis, positions and energies of element i+1.
C6_VisitsInDocumentOrder ==
    (method = "get_all_trajectories" /\ TrajOver /\ ~truncated /\ CalcsComplete
       /\ Len(CalcSeq) <= nsw) =>
        TrajectoryHoldsDocument

\* The same for the documents with more than one atom (where the positions
\* query is not the single-atom one): this part of C6 holds.
C6_HoldsForSeveralAtoms ==
    (method = "get_all_trajectories" /\ TrajOver /\ ~truncated /\ CalcsComplete
       /\ Len(CalcSeq) <= nsw /\ natoms >= 2) =>
        TrajectoryHoldsDocument

\* C7 -- when the document is cut off after k >= 1 complete calculation
\* elements (k <= NSW), get_all_trajectories returns a trajectory of length k
\* holding them and reports one warning.  (Stated for documents with more
\* than one atom.)
C7_TruncatedTailWarnsOnce ==
    (method = "get_all_trajectories" /\ TrajOver /\ truncated /\ CalcsComplete
       /\ natoms >= 2 /\ Len(CalcSeq) >= 1 /\ Len(CalcSeq) <= nsw) =>
        /\ xpc = "returned"
        /\ visited = CalcSeq
        /\ xret[1].length = Len(CalcSeq)
        /\ warnings = 1

\* The steps for which the history shows a basis, a positions and a total
\* energy write.
CompletedSteps(cs) ==
    { n \in { cs[i][2] : i \in DOMAIN cs } :
        /\ n < nsw      \* a write at step >= nsw is an attempt that failed
        /\ \A m \in { "set_basis", "set_positions", "set_e_total" } :
               \E i \in DOMAIN cs : cs[i] = << m, n >> }

\* The scan is running, or an exception left it: update_length has not been
\* reached (get_single_trajectory's AttributeError comes after it).
BeforeUpdateLength ==
    \/ xpc \in { "iter", "after_iter" }
    \/ xpc = "traj_failed" /\ xerr # "AttributeError"

\* C8 -- step_no starts at 0, never decreases and grows by one per completed
\* element; a call that returns has called update_length exactly once, after
\* every write and before the trajectory is handed over, with the number of
\* elements whose basis, positions and total energy were all written.
C8_State ==
    /\ TrajActive => step_no = Cardinality(CompletedSteps(calls))
    /\ BeforeUpdateLength =>
           \A i \in DOMAIN calls : calls[i][1] # "update_length"
    /\ xpc = "returned" => xret = Some(trajectory)
    /\ (TrajOver /\ ~BeforeUpdateLength) =>
           /\ calls # <<>>
           /\ calls[Len(calls)] = << "update_length", Cardinality(CompletedSteps(calls)) >>
           /\ \A i \in 1..(Len(calls) - 1) : calls[i][1] # "update_length"
           /\ trajectory.length = Cardinality(CompletedSteps(calls))
           /\ Len(trajectory.basis) = trajectory.length
           /\ Len(trajectory.positions) = trajectory.length
           /\ Len(trajectory.e_total) = trajectory.length

C8_Step ==
    /\ (xpc # "iter" /\ xpc' = "iter") => step_no' = 0
    /\ xpc = "iter" =>
           /\ step_no' \in { step_no, step_no + 1 }
           /\ step_no' = step_no + 1 <=> (visited' # visited /\ xpc' = "iter")

\* C8 -- step_no starts at 0, goes up by one per visited calculation element,
\* and the trajectory length is set once, at the end, to the final step_no.
C8_UpdateLengthOnceAtEnd == [] C8_State /\ [][C8_Step]_vars

C8_Witness ==
    /\ xpc = "returned"
    /\ step_no = 2
    /\ calls[Len(calls)] = << "update_length", 2 >>
    /\ Len(xret[1].basis) = 2

\* C9 -- when the document has more calculation elements than NSW, the scan
\* fails with IndexError at the first write at step index >= NSW: the arrays
\* keep their NSW entries, the entries written before are kept, and no
\* trajectory is returned.
C9_Case == TrajActive /\ Len(visited) > nsw

\* C9 -- the first write at a step index >= NSW ends the scan with an
\* IndexError; the arrays keep NSW entries and no trajectory is returned.
C9_OverflowIsIndexError ==
    /\ C9_Case =>
           /\ xpc = "traj_failed"
           /\ xerr = "IndexError"
           /\ xret = None
           /\ \A n \in 1..nsw : trajectory.basis[n] = Basis(doc[visited[n]])
    /\ BeforeUpdateLength =>
           /\ Len(trajectory.basis) = nsw /\ Len(trajectory.positions) = nsw
           /\ Len(trajectory.e_kinetic) = nsw /\ Len(trajectory.e_total) = nsw
    /\ (TrajOver /\ Len(CalcSeq) > nsw) => (xpc = "traj_failed" /\ xret = None)

C9_Witness ==
    /\ C9_Case
    /\ nsw >= 1
    /\ xpc = "traj_failed"
    /\ xerr = "IndexError"

\* C10 -- _find_first_instance on a (well-formed) document in which the tag
\* never occurs fails with a lookup failure (LookupError).
C10_AbsentTagIsLookupError ==
    ( /\ xpc \in { "init_failed", "structure_failed", "structure_done", "ready" }
      /\ ~truncated
      /\ \A i \in 1..Len(doc) : ~Delivers(doc[i], tag) )
        => xerr = "LookupError"

\* C11 -- when the tag occurs, _find_first_instance calls func once, on the
\* first matching element, and returns its result, whatever follows that
\* element (further matches, a cut-off tail): get_initial_structure returns
\* the values of the first structure, and construction takes NSW from the
\* first incar element.
C11_FirstMatchOnly ==
    /\ (xpc \in { "structure_done", "structure_failed" } /\ Matches("structure") # <<>>) =>
           /\ xpc = "structure_done"
           /\ xerr = "none"
           /\ visited = << Matches("structure")[1] >>
           /\ xret = Some(CallVisitor("_get_initial_positions", doc[Matches("structure")[1]]))
    /\ (xpc # "new" /\ Matches("incar") # <<>>) =>
           /\ ~(xpc = "init_failed" /\ tag = "incar")
           /\ nsw = doc[Matches("incar")[1]].nsw

C11_Witness ==
    /\ xpc = "structure_done"
    /\ truncated
    /\ Len(Matches("structure")) >= 2
    /\ Basis(doc[Matches("structure")[1]]) # Basis(doc[Matches("structure")[Len(Matches("structure"))]])
    /\ visited = << Matches("structure")[1] >>

\* C26 -- get_single_trajectory(atom_no) on a well-formed document that has
\* atom atom_no completes and returns the trajectory of the scan, each step
\* holding the position of that one atom.
C26_SingleTrajectoryReturned ==
    (method = "get_single_trajectory" /\ TrajOver /\ ~truncated /\ CalcsComplete
       /\ Len(CalcSeq) <= nsw /\ atom_no < natoms) =>
        /\ xpc = "returned"
        /\ xret = Some(trajectory)
        /\ \A i \in 1..Len(trajectory.positions) : Len(trajectory.positions[i]) = 1

\* ------------------------------------------ vasprun.xml as a parsed tree

\* The text of a v element, as text.split() returns it: three tokens.
VecText(x) == [ i \in 1..3 |-> ToString(x[i]) ]

\* The force vectors of the documents: array 1 is (3,4,0), (0,0,5), (3,0,0),
\* ...; array 2 holds larger vectors (0,0,6), (0,0,7), ...
ForceRow(k, j) ==
    IF k = 2 THEN << 0, 0, 5 + j >>
    ELSE IF j = 1 THEN << 3, 4, 0 >>
    ELSE IF j = 2 THEN << 0, 0, 5 >>
    ELSE << j, 0, 0 >>

\* The position of atom j in the structure called name: (0,0,0), (1,1,1), ...
\* in finalpos; (0,1,0), (1,1,0), ... in initialpos.  Its velocity.
PosRow(name, j) ==
    IF name = "finalpos" THEN << j - 1, j - 1, j - 1 >> ELSE << j - 1, 1, 0 >>
VelRow(name, j) ==
    IF name = "finalpos" THEN << 0, j, 2 >> ELSE << 0, j, 1 >>

\* structure[@name=name]: its positions varray, and its velocities varray
\* when vel (a dynamics run), as lists of v elements.
Structure(name, n, vel) ==
    [ positions |-> [ j \in 1..n |-> VecText(PosRow(name, j)) ],
      velocities |-> IF vel THEN Some([ j \in 1..n |-> VecText(VelRow(name, j)) ])
                     ELSE None ]

\* The structures a document of n atoms may hold under a name: none, one
\* without and one with velocities.
Structures(name, n) ==
    { None } \cup { Some(Structure(name, n, vel)) : vel \in BOOLEAN }

\* The forces varray of a calculation element: none (no v element), array 1
\* or array 2.
ForceArrays(n) ==
    { <<>> } \cup { [ j \in 1..n |-> VecText(ForceRow(k, j)) ] : k \in 1..2 }

\* The documents: n atoms, the two named structures, the calculations.
VDocs ==
    UNION { [ natoms : { n },
              initialpos : Structures("initialpos", n),
              finalpos : Structures("finalpos", n),
              calcs : SeqsUpTo(ForceArrays(n), MaxCalcs) ] : n \in 0..MaxAtoms }

\* ------------------------------------------------------ lxml, numpy, lists

\* etree.XMLParser(): recover is off unless asked for.
XMLParserRecover == FALSE

\* etree.parse(StringIO(docstr), parser) on a document d with damage dmg:
\* a well-formed document gives its tree; a damaged one gives XMLSyntaxError,
\* unless the parser recovers and the damage is recoverable; the parser's
\* error_log holds one entry per error met.
EtreeParse(d, dmg, recover) ==
    IF dmg = "none" THEN [ err |-> "none", tree |-> Some(d), error_log |-> 0 ]
    ELSE IF recover /\ dmg = "recoverable"
    THEN [ err |-> "none", tree |-> Some(d), error_log |-> 1 ]
    ELSE [ err |-> "XMLSyntaxError", tree |-> None, error_log |-> 1 ]

\* self.doc.xpath("/modeling/structure[@name=...]/varray[@name=...]/v"):
\* the v elements, none when the structure or the varray is absent.
XPathStructure(tree, name, varray) ==
    IF tree[name] = None THEN <<>>
    ELSE IF varray = "positions" THEN tree[name][1].positions
    ELSE IF tree[name][1].velocities = None THEN <<>>
    ELSE tree[name][1].velocities[1]

RECURSIVE Concat(_)
Concat(ss) == IF ss = <<>> THEN <<>> ELSE Head(ss) \o Concat(Tail(ss))

\* self.doc.xpath("/modeling/calculation/varray[@name='forces']/v"): the v
\* elements of every calculation element, in document order.
XPathForces(tree) == Concat(tree.calcs)

\* list[i] in Python: a negative i counts from the end; IndexError outside.
PyListIndex(l, i) ==
    LET k == IF i < 0 THEN i + Len(l) ELSE i
    IN  IF k < 0 \/ k >= Len(l) THEN [ err |-> "IndexError", val |-> None ]
        ELSE [ err |-> "none", val |-> Some(l[k + 1]) ]

\* [float(f) for f in text.split()]
FloatRow(text) == [ i \in 1..Len(text) |-> Float(text[i]) ]

\* np.array(tokens) of strings keeps them as strings; np.array of floats.
NpArray(tokens) == [ dtype |-> "S", data |-> tokens ]
NpFloatArray(row) == [ dtype |-> "f", data |-> row ]

RECURSIVE SumSq(_)
SumSq(row) == IF row = <<>> THEN 0 ELSE Head(row) * Head(row) + SumSq(Tail(row))

\* The exceptions np.dot raises for arrays of strings, by numpy version.
NpDotStringErrors == { "TypeError", "ValueError" }

\* np.dot(x, x): defined for numeric arrays only; e is what it raises
\* otherwise.
NpDot(x, e) ==
    IF x.dtype = "S" THEN [ err |-> e, val |-> 0 ]
    ELSE [ err |-> "none", val |-> SumSq(x.data) ]

\* np.sqrt on the squares that occur.
NpSqrt(v) == CHOOSE r \in 0..v : r * r = v

\* Exceptions that are lookup failures: LookupError and its subclasses.
LookupFailures == { "LookupError", "IndexError", "KeyError" }

\* ----------------------------------------------------------- VasprunParser

\* __init__: the document is parsed; the entries of the error log are
\* printed as warnings; XMLSyntaxError ends in sys.exit(2).
VasprunParser_init ==
    /\ vpc = "new"
    /\ LET r == EtreeParse(vdoc, damage, XMLParserRecover)
       IN  /\ vwarn' = r.error_log
           /\ IF r.err = "none"
              THEN /\ vtree' = r.tree
                   /\ vpc' = "ready"
                   /\ UNCHANGED << verr, vmsg >>
              ELSE /\ vpc' = "exited"
                   /\ verr' = "SystemExit"
                   /\ vmsg' = "2"
                   /\ UNCHANGED vtree
    /\ UNCHANGED << vdoc, damage, vcall, varg, vret >>
    /\ UNCHANGED << outcarVars, iterVars, readVars, fitVars, riaVars >>

\* The outcome r = [err, msg, ret] of the query name(arg).
Answer(name, arg, r) ==
    /\ vcall' = name
    /\ varg' = arg
    /\ vret' = r.ret
    /\ verr' = r.err
    /\ vmsg' = r.msg
    /\ UNCHANGED << vdoc, damage, vpc, vtree, vwarn >>
    /\ UNCHANGED << outcarVars, iterVars, readVars, fitVars, riaVars >>

Returns(v) == [ err |-> "none", msg |-> "", ret |-> Some(v) ]
Raises(e, msg) == [ err |-> e, msg |-> msg, ret |-> None ]

\* get_initial_positions, get_final_positions: a row of floats per v element
\* found; no test for an empty result.
GetPositions(tree, name) ==
    LET all_pos == XPathStructure(tree, name, "positions")
    IN  Returns([ i \in 1..Len(all_pos) |-> FloatRow(all_pos[i]) ])

\* get_initial_velocities, get_final_velocities.
GetVelocities(tree, name) ==
    LET all_vel == XPathStructure(tree, name, "velocities")
    IN  IF all_vel = <<>>
        THEN Raises("LookupError", "Velocities not found. Is this file from a MD run?")
        ELSE Returns([ i \in 1..Len(all_vel) |-> FloatRow(all_vel[i]) ])

\* get_force_on_atom, get_final_atom_position: vs[atom_no-1] of the list of
\* v elements the xpath query returned.
GetRowOfAtom(vs, atom) ==
    LET r == PyListIndex(vs, atom - 1)
    IN  IF r.err # "none" THEN Raises(r.err, "list index out of range")
        ELSE Returns(NpFloatArray(FloatRow(r.val[1])))

\* The loop of get_max_force from v element i on, with max_force so far.
RECURSIVE MaxForceLoop(_, _, _, _)
MaxForceLoop(forces, i, max_force, e) ==
    IF i > Len(forces) THEN Returns(max_force)
    ELSE LET force == NpArray(forces[i])
             d     == NpDot(force, e)
         IN  IF d.err # "none" THEN Raises(d.err, "")
             ELSE LET force_norm == NpSqrt(d.val)
                  IN  MaxForceLoop(forces, i + 1,
                                   IF force_norm > max_force THEN force_norm ELSE max_force, e)

\* get_max_force: max_force = 0., then the loop over every v element found.
GetMaxForce(tree, e) == MaxForceLoop(XPathForces(tree), 1, 0, e)

VasprunParser_get_initial_positions ==
    /\ vpc = "ready"
    /\ Answer("get_initial_positions", 0, GetPositions(vtree[1], "initialpos"))

VasprunParser_get_final_positions ==
    /\ vpc = "ready"
    /\ Answer("get_final_positions", 0, GetPositions(vtree[1], "finalpos"))

VasprunParser_get_initial_velocities ==
    /\ vpc = "ready"
    /\ Answer("get_initial_velocities", 0, GetVelocities(vtree[1], "initialpos"))

VasprunParser_get_final_velocities ==
    /\ vpc = "ready"
    /\ Answer("get_final_velocities", 0, GetVelocities(vtree[1], "finalpos"))

\* The atom numbers the callers pass: from below -N to beyond N.
AtomArgs == (0 - MaxAtoms - 1)..(MaxAtoms + 1)

VasprunParser_get_force_on_atom ==
    /\ vpc = "ready"
    /\ \E atom \in AtomArgs :
         Answer("get_force_on_atom", atom, GetRowOfAtom(XPathForces(vtree[1]), atom))

VasprunParser_get_final_atom_position ==
    /\ vpc = "ready"
    /\ \E atom \in AtomArgs :
         Answer("get_final_atom_position", atom,
                GetRowOfAtom(XPathStructure(vtree[1], "finalpos", "positions"), atom))

VasprunParser_get_max_force ==
    /\ vpc = "ready"
    /\ \E e \in NpDotStringErrors :
         Answer("get_max_force", 0, GetMaxForce(vtree[1], e))

\* ---------------------------------------------- the VasprunParser specification

VasprunInit ==
    /\ vdoc \in VDocs
    /\ damage \in { "none", "recoverable", "fatal" }
    /\ vpc = "new"
    /\ vtree = None
    /\ vwarn = 0
    /\ vcall = ""
    /\ varg = 0
    /\ vret = None
    /\ verr = "none"
    /\ vmsg = ""
    \* the OutcarParser is not in use
    /\ file = <<>>
    /\ lineno = FileIterator_reset
    /\ pc = "parked"
    /\ config = ConfigDefault
    /\ keys_found = [ k \in Keys |-> FALSE ]
    /\ allkeys_found = None
    /\ warned = None
    /\ numsteps = 0
    /\ stepno = None
    /\ a = NewArrays(0, ConfigDefault)
    /\ result = None
    /\ err = "none"
    /\ again = FALSE
    \* the IterativeVasprunParser is not in use
    /\ doc = <<>>
    /\ truncated = FALSE
    /\ xpc = "parked"
    /\ nsw = 0
    /\ natoms = 0
    /\ atom_no = -1
    /\ trajectory = None
    /\ step_no = 0
    /\ context = 0
    /\ warnings = 0
    /\ tag = ""
    /\ xret = None
    /\ xerr = "none"
    /\ method = ""
    /\ calls = <<>>
    /\ visited = <<>>
    \* no reader is in use
    /\ content = <<>>
    /\ spc = "parked"
    /\ fpos = 0
    /\ readout = <<>>
    /\ docstr = None
    /\ fed = None
    \* no FileIterator is iterated by hand
    /\ cached = TRUE
    /\ fileobj = 0
    /\ yielded = <<>>
    /\ signal = "none"
    /\ wasreset = FALSE
    \* readItAll is not in use
    /\ outfile = 0
    /\ rpc = "parked"
    /\ attrs = None
    /\ rerr = "none"

VasprunNext ==
    \/ VasprunParser_init
    \/ VasprunParser_get_initial_positions
    \/ VasprunParser_get_final_positions
    \/ VasprunParser_get_initial_velocities
    \/ VasprunParser_get_final_velocities
    \/ VasprunParser_get_force_on_atom
    \/ VasprunParser_get_final_atom_position
    \/ VasprunParser_get_max_force

SpecVasprun == VasprunInit /\ [][VasprunNext]_vars

\* ------------------------------------- what the claims say, VasprunParser

\* The query name has been called and has ended.
Asked(name) == vpc = "ready" /\ vcall = name

\* The largest squared Euclidean norm of the vectors vs, 0 if there are none.
MaxNormSq(vs) == Max({ 0 } \cup { SumSq(FloatRow(vs[i])) : i \in 1..Len(vs) })

\* C12 -- get_max_force returns the largest Euclidean norm of the force
\* vectors, and 0 when there are none (stated for documents with at most one
\* calculation section; the norms are compared by their squares).
C12_MaxForceIsLargestNorm ==
    (Asked("get_max_force") /\ Len(vtree[1].calcs) <= 1) =>
        /\ verr = "none"
        /\ vret # None
        /\ vret[1] * vret[1] = MaxNormSq(XPathForces(vtree[1]))

\* C13 -- get_initial_positions and get_final_positions return the n
\* positions of their structure as n rows in document order when the
\* structure is present, and fail with a lookup failure when it is absent.
C13_PositionsOrNotFound ==
    \A name \in { "initialpos", "finalpos" } :
        Asked(IF name = "initialpos" THEN "get_initial_positions" ELSE "get_final_positions") =>
            IF vtree[1][name] # None
            THEN /\ verr = "none"
                 /\ vret = Some([ j \in 1..vtree[1].natoms |-> PosRow(name, j) ])
            ELSE /\ verr \in LookupFailures
                 /\ vret = None

\* The error raised by the velocity queries when all_vel is empty.
VelocitiesNotFound ==
    << "LookupError", "Velocities not found. Is this file from a MD run?" >>

\* C14 -- the velocity queries fail with the "not a dynamics run" condition
\* when their structure is present without velocities, and with a lookup
\* failure that differs from it when the structure itself is absent.
C14_NotDynamicsRunIsDistinct ==
    \A name \in { "initialpos", "finalpos" } :
        Asked(IF name = "initialpos" THEN "get_initial_velocities" ELSE "get_final_velocities") =>
            /\ (vtree[1][name] # None /\ vtree[1][name][1].velocities = None) =>
                   << verr, vmsg >> = VelocitiesNotFound
            /\ vtree[1][name] = None =>
                   /\ verr \in LookupFailures
                   /\ << verr, vmsg >> # VelocitiesNotFound

\* C15 -- construction on a document with a recoverable error yields a parser
\* holding the recovered tree and prints the diagnostics as warnings; it ends
\* fatally only when the document cannot be parsed at all.
C15_RecoverableIsWarning ==
    vpc # "new" =>
        /\ damage = "none" => (vpc = "ready" /\ vtree = Some(vdoc) /\ vwarn = 0)
        /\ damage = "recoverable" => (vpc = "ready" /\ vtree = Some(vdoc) /\ vwarn >= 1)
        /\ damage = "fatal" => (vpc = "exited" /\ verr = "SystemExit" /\ vtree = None)

\* C19 -- with several calculation sections, get_max_force is the largest
\* norm over the force vectors of the last section only.
C19_MaxForceOfFinalArray ==
    (Asked("get_max_force") /\ Len(vtree[1].calcs) >= 2) =>
        /\ verr = "none"
        /\ vret # None
        /\ vret[1] * vret[1] = MaxNormSq(vtree[1].calcs[Len(vtree[1].calcs)])

\* C20 -- get_force_on_atom(a) and get_final_atom_position(a) return the
\* vector of atom a (of one of the force arrays; of finalpos) for a in 1..N,
\* and fail with a lookup failure for any other a.  Stated for documents
\* that hold forces, respectively the finalpos structure.
C20_AtomVectorOrLookupFailure ==
    /\ (Asked("get_force_on_atom") /\ XPathForces(vtree[1]) # <<>>) =>
           IF varg \in 1..vtree[1].natoms
           THEN /\ verr = "none"
                /\ \E c \in 1..Len(vtree[1].calcs) :
                       /\ vtree[1].calcs[c] # <<>>
                       /\ vret = Some(NpFloatArray(FloatRow(vtree[1].calcs[c][varg])))
           ELSE verr \in LookupFailures /\ vret = None
    /\ (Asked("get_final_atom_position") /\ vtree[1].finalpos # None) =>
           IF varg \in 1..vtree[1].natoms
           THEN verr = "none" /\ vret = Some(NpFloatArray(PosRow("finalpos", varg)))
           ELSE verr \in LookupFailures /\ vret = None

\* ------------------------------------------- reading the vasprun.xml file

\* Longest file content, in characters.
MaxChars == 4

\* The characters of the files, by code: the ends of the two ranges of the
\* pattern (0x00, 0x09 and 0x0B, 0x1F), the line terminator 0x0A between
\* them, and 0x20, the first character above them.
Chars == { 0, 9, 10, 11, 31, 32 }
LineTerminator == 10

Contents == SeqsUpTo(Chars, MaxChars)

\* The class [\x00-\x1F]: every control character, the terminator included.
InClassAllControls(c) == c >= 0 /\ c <= 31
\* The class [\x00-\x09\x0B-\x1F] of the pattern.
InClass(c) == (c >= 0 /\ c <= 9) \/ (c >= 11 /\ c <= 31)

\* re.sub('[\x00-\x09\x0B-\x1F]', '', str): left to right, every match of
\* the class is replaced by the empty string.
RECURSIVE ReSub(_)
ReSub(str) ==
    IF str = <<>> THEN <<>>
    ELSE IF InClass(Head(str)) THEN ReSub(Tail(str))
    ELSE << Head(str) >> \o ReSub(Tail(str))

\* self.f.next() with the file object at position pos: the characters up to
\* and including the next line terminator, or up to the end of the file.
FileNext(str, pos) ==
    LET T == { i \in (pos + 1)..Len(str) : str[i] = LineTerminator }
    IN  SubSeq(str, pos + 1, IF T = {} THEN Len(str) ELSE Min(T))

\* myFile.read: the next line, with the control characters removed; the
\* StopIteration of self.f.next() at the end of the file is passed on.
myFile_read ==
    /\ spc = "open"
    /\ IF fpos < Len(content)
       THEN LET line == FileNext(content, fpos)
            IN  /\ readout' = Append(readout, ReSub(line))
                /\ fpos' = fpos + Len(line)
                /\ UNCHANGED spc
       ELSE /\ spc' = "stopped"
            /\ UNCHANGED << readout, fpos >>
    /\ UNCHANGED << content, docstr, fed >>
    /\ UNCHANGED << outcarVars, iterVars, domVars, fitVars, riaVars >>

\* VasprunParser.__init__: docstr = open(filename).read(), then re.sub over
\* the whole of it.
VasprunParser_read ==
    /\ spc \in { "open", "stopped" }
    /\ docstr = None
    /\ docstr' = Some(ReSub(content))
    /\ UNCHANGED << content, spc, fpos, readout, fed >>
    /\ UNCHANGED << outcarVars, iterVars, domVars, fitVars, riaVars >>

\* etree.iterparse(self.filename, tag=tag) in _find_first_instance and in
\* _get_trajectories: lxml opens the named file and reads it itself.
IterativeVasprunParser_iterparse ==
    /\ spc \in { "open", "stopped" }
    /\ fed = None
    /\ fed' = Some(content)
    /\ UNCHANGED << content, spc, fpos, readout, docstr >>
    /\ UNCHANGED << outcarVars, iterVars, domVars, fitVars, riaVars >>

ReadInit ==
    /\ content \in Contents
    /\ spc = "open"
    /\ fpos = 0
    /\ readout = <<>>
    /\ docstr = None
    /\ fed = None
    \* the OutcarParser is not in use
    /\ file = <<>>
    /\ lineno = FileIterator_reset
    /\ pc = "parked"
    /\ config = ConfigDefault
    /\ keys_found = [ k \in Keys |-> FALSE ]
    /\ allkeys_found = None
    /\ warned = None
    /\ numsteps = 0
    /\ stepno = None
    /\ a = NewArrays(0, ConfigDefault)
    /\ result = None
    /\ err = "none"
    /\ again = FALSE
    \* the IterativeVasprunParser is not in use
    /\ doc = <<>>
    /\ truncated = FALSE
    /\ xpc = "parked"
    /\ nsw = 0
    /\ natoms = 0
    /\ atom_no = -1
    /\ trajectory = None
    /\ step_no = 0
    /\ context = 0
    /\ warnings = 0
    /\ tag = ""
    /\ xret = None
    /\ xerr = "none"
    /\ method = ""
    /\ calls = <<>>
    /\ visited = <<>>
    \* the VasprunParser is not in use
    /\ vdoc = None
    /\ damage = "none"
    /\ vpc = "parked"
    /\ vtree = None
    /\ vwarn = 0
    /\ vcall = ""
    /\ varg = 0
    /\ vret = None
    /\ verr = "none"
    /\ vmsg = ""
    \* no FileIterator is iterated by hand
    /\ cached = TRUE
    /\ fileobj = 0
    /\ yielded = <<>>
    /\ signal = "none"
    /\ wasreset = FALSE
    \* readItAll is not in use
    /\ outfile = 0
    /\ rpc = "parked"
    /\ attrs = None
    /\ rerr = "none"

ReadNext ==
    \/ myFile_read
    \/ VasprunParser_read
    \/ IterativeVasprunParser_iterparse

SpecRead == ReadInit /\ [][ReadNext]_vars

\* ------------------------------------------ what the claims say, reading

\* The characters the sanitization is to remove: 0x00-0x09 and 0x0B-0x1F.
ControlChars == (0..9) \cup (11..31)

\* C16 -- what the streaming parser's iterparse reads has passed through the
\* sanitizing line source: it holds no control character.
C16_StreamIsSanitized ==
    fed # None => \A i \in 1..Len(fed[1]) : fed[1][i] \notin ControlChars

\* C17 -- the sanitization removes the control characters and nothing else,
\* keeping the order (the line terminator stays); it is idempotent; and the
\* pieces myFile.read returns over a whole file, put together, are the
\* whole-buffer sanitization of VasprunParser.
C17_SanitizeExactAndLinewise ==
    /\ docstr # None =>
           /\ docstr[1] = SelectSeq(content, LAMBDA c : c \notin ControlChars)
           /\ ReSub(docstr[1]) = docstr[1]
    /\ \A i \in 1..Len(readout) : ReSub(readout[i]) = readout[i]
    /\ (docstr # None /\ fpos = Len(content)) => Concat(readout) = docstr[1]
    /\ spc = "stopped" => fpos = Len(content)

C17_Witness ==
    /\ spc = "stopped"
    /\ docstr # None
    /\ Len(readout) >= 2
    /\ \E i \in 1..Len(content) : content[i] \in ControlChars
    /\ Len(docstr[1]) >= 2
    /\ Len(docstr[1]) < Len(content)

\* ------------------------------------- FileIterator, iterated by a caller

\* The files: lines that all differ (the marker lines of the step files).
IteratedFiles == SeqsUpTo({ IterLine(n) : n \in 0..MaxIter }, MaxLines)

\* The locals of the OutcarParser, which this iteration leaves alone.
outcarLocals ==
    << pc, config, keys_found, allkeys_found, warned, numsteps, stepno, a,
       result, err, again >>

\* A string next returns: prefix + text, where text is a line of the file
\* (Some(line)) or the empty string (None).
Yield(prefix, text) == [ prefix |-> prefix, text |-> text ]

\* self.file.readline() with the file object at position pos: the next
\* line, or the empty string at the end of the file.
Readline(pos) ==
    [ text |-> IF pos < Len(file) THEN Some(file[pos + 1]) ELSE None,
      pos  |-> IF pos < Len(file) THEN pos + 1 ELSE pos ]

\* FileIterator.next.  Cached: StopIteration when lineno >= numlines, else
\* "0 " + contents[lineno].  Not cached: "1 " + self.file.readline(); readline
\* raises nothing at the end of the file, so the except clause is never
\* reached and no branch raises StopIteration.  (Further calls are followed
\* up to one beyond the end of the file.)
FileIterator_call_next ==
    /\ lineno <= Len(file)
    /\ IF cached
       THEN LET nx == FileIterator_next(lineno)
            IN  /\ lineno' = nx.lineno
                /\ IF nx.stop
                   THEN signal' = "StopIteration" /\ UNCHANGED yielded
                   ELSE /\ signal' = "yield"
                        /\ yielded' = Append(yielded, Yield("0 ", Some(nx.line)))
                /\ UNCHANGED fileobj
       ELSE LET r == Readline(fileobj)
            IN  /\ lineno' = lineno + 1
                /\ signal' = "yield"
                /\ yielded' = Append(yielded, Yield("1 ", r.text))
                /\ fileobj' = r.pos
    /\ UNCHANGED << file, cached, wasreset >>
    /\ UNCHANGED << outcarLocals, iterVars, domVars, readVars, riaVars >>

\* FileIterator.reset: lineno = -1, and seek(0) when not cached.
FileIterator_call_reset ==
    /\ lineno' = FileIterator_reset
    /\ fileobj' = IF cached THEN fileobj ELSE 0
    /\ yielded' = <<>>
    /\ signal' = "none"
    /\ wasreset' = (wasreset \/ signal # "none")
    /\ UNCHANGED << file, cached >>
    /\ UNCHANGED << outcarLocals, iterVars, domVars, readVars, riaVars >>

\* FileIterator(filename, cache): cached mode reads every line at once.
FileIteratorInit ==
    /\ file \in IteratedFiles
    /\ cached \in BOOLEAN
    /\ lineno = FileIterator_reset
    /\ fileobj = IF cached THEN Len(file) ELSE 0
    /\ yielded = <<>>
    /\ signal = "none"
    /\ wasreset = FALSE
    \* no OutcarParser is built on the iterator
    /\ pc = "parked"
    /\ config = ConfigDefault
    /\ keys_found = [ k \in Keys |-> FALSE ]
    /\ allkeys_found = None
    /\ warned = None
    /\ numsteps = 0
    /\ stepno = None
    /\ a = NewArrays(0, ConfigDefault)
    /\ result = None
    /\ err = "none"
    /\ again = FALSE
    \* the IterativeVasprunParser is not in use
    /\ doc = <<>>
    /\ truncated = FALSE
    /\ xpc = "parked"
    /\ nsw = 0
    /\ natoms = 0
    /\ atom_no = -1
    /\ trajectory = None
    /\ step_no = 0
    /\ context = 0
    /\ warnings = 0
    /\ tag = ""
    /\ xret = None
    /\ xerr = "none"
    /\ method = ""
    /\ calls = <<>>
    /\ visited = <<>>
    \* the VasprunParser is not in use
    /\ vdoc = None
    /\ damage = "none"
    /\ vpc = "parked"
    /\ vtree = None
    /\ vwarn = 0
    /\ vcall = ""
    /\ varg = 0
    /\ vret = None
    /\ verr = "none"
    /\ vmsg = ""
    \* no reader is in use
    /\ content = <<>>
    /\ spc = "parked"
    /\ fpos = 0
    /\ readout = <<>>
    /\ docstr = None
    /\ fed = None
    \* readItAll is not in use
    /\ outfile = 0
    /\ rpc = "parked"
    /\ attrs = None
    /\ rerr = "none"

FileIteratorNext ==
    \/ FileIterator_call_next
    \/ FileIterator_call_reset

SpecFileIterator == FileIteratorInit /\ [][FileIteratorNext]_vars

\* ------------------------------------ what the claims say, FileIterator

\* The iteration protocol of the cached mode: what has been returned since
\* the last reset is one string per line, in file order, from the first
\* line, and next raises StopIteration exactly once the lines are used up.
CachedOrderEndAndReset ==
    cached =>
        /\ Len(yielded) = Min({ lineno + 1, Len(file) })
        /\ \A i \in 1..Len(yielded) : yielded[i].text = Some(file[i])
        /\ signal = "StopIteration" <=> lineno >= Len(file)

\* C22 -- in cached mode the iterator yields the lines of the file, each
\* once and in file order, then signals the end for good; after any reset
\* it yields the same lines again from the first.
C22_CachedYieldsLinesThenEnds ==
    /\ CachedOrderEndAndReset
    /\ cached => \A i \in 1..Len(yielded) : yielded[i].prefix = ""

\* C23 -- in non-cached mode the iteration ends: once the last line has been
\* returned, next signals the end and returns nothing more.
C23_UncachedIterationEnds ==
    ~cached =>
        /\ Len(yielded) <= Len(file)
        /\ \A i \in 1..Len(yielded) : yielded[i].text = Some(file[i])
        /\ lineno >= Len(file) => signal = "StopIteration"

\* ------------------------------------------------ OutcarParser.readItAll

\* Most TOTAL-FORCE blocks in a file.
MaxBlocks == 2

\* A line of the OUTCAR file as readItAll sees it:
\*  kind   : the test of the if/elif chain it satisfies ("planewaves" for the
\*           NPLWV pattern, tested by an if of its own), "other" for none;
\*           the lines of the inputs satisfy at most one of them;
\*  val    : the number the pattern of that test captures;
\*  dashes : whether re.search('----', line) finds a match;
\*  words, nums : line.split(): words tokens that float() rejects, then the
\*           numeric tokens, given by their values;
\*  empty  : the empty string, which readline returns at the end of the file.
RiaLine(kind, val, dashes, words, nums) ==
    [ kind |-> kind, val |-> val, dashes |-> dashes, words |-> words,
      nums |-> nums, empty |-> FALSE ]

EmptyLine == [ RiaLine("other", 0, FALSE, 0, <<>>) EXCEPT !.empty = TRUE ]

\* What Readline returned, as a line.
LineOf(text) == IF text = None THEN EmptyLine ELSE text[1]

ForceHeader == RiaLine("force", 0, FALSE, 3, <<>>)
DashLine == RiaLine("other", 0, TRUE, 1, <<>>)
RowLine(f) == RiaLine("other", 0, FALSE, 0, << 0, 0, 0 >> \o f)
DriftLine(d) == RiaLine("other", 0, FALSE, 2, d)
OtherLine == RiaLine("other", 0, FALSE, 1, <<>>)
KVecLine(k) == RiaLine("other", 0, FALSE, 0, k \o << 1 >>)

\* The atom rows of a block (force components), and the drift lines.
RowLists ==
    { <<>>, << RowLine(<< 1, -3, 2 >>) >>, << RowLine(<< -4, 0, 1 >>) >>,
      << RowLine(<< 1, -3, 2 >>), RowLine(<< -4, 0, 1 >>) >>,
      << RowLine(<< -4, 0, 1 >>), RowLine(<< 1, -3, 2 >>) >>,
      << RowLine(<< 0, 0, -5 >>), RowLine(<< 1, -3, 2 >>) >> }
Drifts == { << 0, -2, 1 >>, << 3, 0, 0 >> }

\* A TOTAL-FORCE block: header, rule, atom rows, rule, drift line.
ForceBlocks ==
    { << ForceHeader, DashLine >> \o rows \o << DashLine, DriftLine(d) >> :
        rows \in RowLists, d \in Drifts }

\* The lines that come before the blocks in some files.
Preambles ==
    { << RiaLine("planewaves", 3, FALSE, 3, << 3 >>) >>,
      << RiaLine("irreducible", 1, FALSE, 3, <<>>), RiaLine("dist", 0, FALSE, 3, <<>>) >>,
      << RiaLine("irreducible", 2, FALSE, 3, <<>>), RiaLine("dist", 0, FALSE, 3, <<>>),
         OtherLine, KVecLine(<< 0, 0, 0 >>), KVecLine(<< 0, 3, 4 >>) >>,
      << RiaLine("dist", 0, FALSE, 3, <<>>) >>,
      << RiaLine("toten", 7, FALSE, 4, << 7 >>), RiaLine("cpu", 9, FALSE, 5, << 9 >>) >>,
      << RiaLine("pressure", 2, FALSE, 8, << 2, 0 >>) >> }

\* The files: up to MaxBlocks blocks one after the other, cut off anywhere
\* (or not at all); and a block after each of the preambles.
ReadItAllFiles ==
    UNION { { SubSeq(Concat(bs), 1, n) : n \in 0..Len(Concat(bs)) } :
            bs \in SeqsUpTo(ForceBlocks, MaxBlocks) }
      \cup { p \o b : p \in Preambles,
                      b \in { << ForceHeader, DashLine, RowLine(<< 1, -3, 2 >>),
                                 DashLine, DriftLine(<< 0, -2, 1 >>) >> } }

\* A value in place of abs() that keeps the sign.
AbsKeepsSign(x) == x
\* abs()
Abs(x) == IF x < 0 THEN 0 - x ELSE x

\* if abs(v) > m: m = abs(v), for the three components of v in turn.
RECURSIVE MaxAbsInto(_, _)
MaxAbsInto(m, v) ==
    IF v = <<>> THEN m
    ELSE MaxAbsInto(IF Abs(Head(v)) > m THEN Abs(Head(v)) ELSE m, Tail(v))

\* The inner loop of the TOTAL-FORCE branch, with the file at pos: a line
\* with '----' ends it, the line after it being split into five tokens of
\* which the last three are the drift; any other line is split into six
\* floats.  A line of another shape is ValueError; with selective dynamics
\* the flags x, y, z are names bound nowhere (NameError when a component
\* exceeds maxforce).
RECURSIVE ForceRows(_, _, _)
ForceRows(pos, maxforce, seldyn) ==
    LET r    == Readline(pos)
        line == LineOf(r.text)
    IN  IF line.dashes
        THEN LET r2    == Readline(r.pos)
                 drift == LineOf(r2.text)
                 n     == Len(drift.nums)
             IN  IF drift.words + n # 5 \/ n < 3
                 THEN [ err |-> "ValueError", pos |-> r2.pos, maxforce |-> maxforce, maxdrift |-> 0 ]
                 ELSE [ err |-> "none", pos |-> r2.pos, maxforce |-> maxforce,
                        maxdrift |-> MaxAbsInto(0, SubSeq(drift.nums, n - 2, n)) ]
        ELSE IF line.words # 0 \/ Len(line.nums) # 6
        THEN [ err |-> "ValueError", pos |-> r.pos, maxforce |-> maxforce, maxdrift |-> 0 ]
        ELSE LET f == SubSeq(line.nums, 4, 6)
             IN  IF seldyn
                 THEN IF MaxAbsInto(maxforce, f) > maxforce
                      THEN [ err |-> "NameError", pos |-> r.pos, maxforce |-> maxforce, maxdrift |-> 0 ]
                      ELSE ForceRows(r.pos, maxforce, seldyn)
                 ELSE ForceRows(r.pos, MaxAbsInto(maxforce, f), seldyn)

\* The branch of "Following cartesian coordinates:": self.kpoints is read
\* (AttributeError when no line has set it); with more than one k-point the
\* distance of the first two, read from the second and third line below.
DistBranch(pos, at) ==
    IF at.kpoints = None THEN [ err |-> "AttributeError", pos |-> pos, dist |-> 0 ]
    ELSE IF at.kpoints[1] > 1
    THEN LET r1 == Readline(pos)
             r2 == Readline(r1.pos)
             r3 == Readline(r2.pos)
             k1 == LineOf(r2.text)
             k2 == LineOf(r3.text)
         IN  IF k1.words # 0 \/ Len(k1.nums) # 4 \/ k2.words # 0 \/ Len(k2.nums) # 4
             THEN [ err |-> "ValueError", pos |-> r3.pos, dist |-> 0 ]
             ELSE [ err |-> "none", pos |-> r3.pos,
                    dist |-> NpSqrt(SumSq([ i \in 1..3 |-> k2.nums[i] - k1.nums[i] ])) ]
    ELSE [ err |-> "none", pos |-> pos, dist |-> 0 ]

\* The attributes before readItAll has set any of them.
NoAttrs(seldyn) ==
    [ planewaves |-> None, kpoints |-> None, toten |-> None, cpu |-> None,
      dist |-> None, maxpressure |-> None, maxforce |-> None, maxdrift |-> None,
      selective_dynamics |-> seldyn ]

\* outfile = open(self.filename)
OutcarParser_readItAll ==
    /\ rpc = "ready"
    /\ outfile' = 0
    /\ rpc' = "loop"
    /\ UNCHANGED << attrs, rerr >>
    /\ UNCHANGED << file, lineno, outcarLocals, iterVars, domVars, readVars, fitVars >>

\* One turn of the while loop: a line is read and tested; the NPLWV test
\* stands alone, the others form one if/elif chain; the loop ends on the
\* empty string, when outfile is closed.
OutcarParser_readItAll_line ==
    /\ rpc = "loop"
    /\ LET r    == Readline(outfile)
           line == LineOf(r.text)
           at1  == IF line.kind = "planewaves"
                   THEN [ attrs EXCEPT !.planewaves = Some(line.val) ]
                   ELSE attrs
           d    == DistBranch(r.pos, at1)
           \* i = 0; line = outfile.readline(); maxdrift = 0.0; maxforce = 0.0
           b    == ForceRows(Readline(r.pos).pos, 0, at1.selective_dynamics)
           out  == CASE line.kind = "irreducible" ->
                         [ err |-> "none", pos |-> r.pos, last |-> line,
                           at |-> [ at1 EXCEPT !.kpoints = Some(line.val) ] ]
                     [] line.kind = "toten" ->
                         [ err |-> "none", pos |-> r.pos, last |-> line,
                           at |-> [ at1 EXCEPT !.toten = Some(line.val) ] ]
                     [] line.kind = "cpu" ->
                         [ err |-> "none", pos |-> r.pos, last |-> line,
                           at |-> [ at1 EXCEPT !.cpu = Some(line.val) ] ]
                     [] line.kind = "dist" ->
                         [ err |-> d.err, pos |-> d.pos, last |-> line,
                           at |-> IF d.err = "none"
                                  THEN [ at1 EXCEPT !.dist = Some(d.dist) ] ELSE at1 ]
                     [] line.kind = "pressure" ->
                         IF line.words + Len(line.nums) # 10
                         THEN [ err |-> "ValueError", pos |-> r.pos, last |-> line, at |-> at1 ]
                         ELSE [ err |-> "none", pos |-> r.pos, last |-> line,
                                at |-> [ at1 EXCEPT !.maxpressure = Some(line.val) ] ]
                     [] line.kind = "force" ->
                         [ err |-> b.err, pos |-> b.pos,
                           last |-> LineOf(IF b.pos = 0 THEN None ELSE Some(file[b.pos])),
                           at |-> IF b.err = "none"
                                  THEN [ at1 EXCEPT !.maxforce = Some(b.maxforce),
                                                    !.maxdrift = Some(b.maxdrift) ]
                                  ELSE at1 ]
                     [] OTHER ->
                         [ err |-> "none", pos |-> r.pos, last |-> line, at |-> at1 ]
       IN  /\ outfile' = out.pos
           /\ attrs' = out.at
           /\ rerr' = out.err
           /\ rpc' = IF out.err # "none" THEN "failed"
                     ELSE IF out.last.empty THEN "done"
                     ELSE "loop"
    /\ UNCHANGED << file, lineno, outcarLocals, iterVars, domVars, readVars, fitVars >>

ReadItAllInit ==
    /\ file \in ReadItAllFiles
    /\ \E seldyn \in BOOLEAN : attrs = NoAttrs(seldyn)
    /\ outfile = 0
    /\ rpc = "ready"
    /\ rerr = "none"
    \* neither get_ionic_steps nor its iterator is in use
    /\ lineno = FileIterator_reset
    /\ pc = "parked"
    /\ config = ConfigDefault
    /\ keys_found = [ k \in Keys |-> FALSE ]
    /\ allkeys_found = None
    /\ warned = None
    /\ numsteps = 0
    /\ stepno = None
    /\ a = NewArrays(0, ConfigDefault)
    /\ result = None
    /\ err = "none"
    /\ again = FALSE
    \* the IterativeVasprunParser is not in use
    /\ doc = <<>>
    /\ truncated = FALSE
    /\ xpc = "parked"
    /\ nsw = 0
    /\ natoms = 0
    /\ atom_no = -1
    /\ trajectory = None
    /\ step_no = 0
    /\ context = 0
    /\ warnings = 0
    /\ tag = ""
    /\ xret = None
    /\ xerr = "none"
    /\ method = ""
    /\ calls = <<>>
    /\ visited = <<>>
    \* the VasprunParser is not in use
    /\ vdoc = None
    /\ damage = "none"
    /\ vpc = "parked"
    /\ vtree = None
    /\ vwarn = 0
    /\ vcall = ""
    /\ varg = 0
    /\ vret = None
    /\ verr = "none"
    /\ vmsg = ""
    \* no reader is in use
    /\ content = <<>>
    /\ spc = "parked"
    /\ fpos = 0
    /\ readout = <<>>
    /\ docstr = None
    /\ fed = None
    \* no FileIterator is iterated by hand
    /\ cached = TRUE
    /\ fileobj = 0
    /\ yielded = <<>>
    /\ signal = "none"
    /\ wasreset = FALSE

ReadItAllNext ==
    \/ OutcarParser_readItAll
    \/ OutcarParser_readItAll_line

SpecReadItAll == ReadItAllInit /\ [][ReadItAllNext]_vars

\* Where the TOTAL-FORCE lines of the file are, and the last block: its
\* atom rows lie between the rule under the header and the next rule; the
\* drift line follows that rule.
ForceHeaders == { i \in 1..Len(file) : file[i].kind = "force" }
LastHeader == Max(ForceHeaders)
LastRule == Min({ j \in (LastHeader + 2)..Len(file) : file[j].dashes })
LastBlockForces ==
    { file[j].nums[c] : j \in (LastHeader + 2)..(LastRule - 1), c \in 4..6 }
LastBlockDrift ==
    LET nums == file[LastRule + 1].nums
    IN  { nums[c] : c \in (Len(nums) - 2)..Len(nums) }
\* The largest magnitude among the numbers of S, 0 for none.
LargestMagnitude(S) == Max({ 0 } \cup S \cup { 0 - x : x \in S })

\* C24 -- after readItAll on a file with a TOTAL-FORCE block, selective
\* dynamics off, maxforce is the largest absolute force component over the
\* atom rows of the last block and maxdrift the largest absolute component
\* of that block's drift line, whatever the earlier blocks hold.
C24_MaxForceAndDriftOfLastBlock ==
    (rpc = "done" /\ ~attrs.selective_dynamics /\ ForceHeaders # {}) =>
        /\ attrs.maxforce = Some(LargestMagnitude(LastBlockForces))
        /\ attrs.maxdrift = Some(LargestMagnitude(LastBlockDrift))

\* readItAll has read two blocks, the first with a larger force and a larger
\* drift than the last, whose largest components are negative.
C24_Witness ==
    /\ rpc = "done"
    /\ ~attrs.selective_dynamics
    /\ Cardinality(ForceHeaders) = 2
    /\ attrs.maxforce = Some(3)
    /\ attrs.maxdrift = Some(2)
    /\ \E j \in 1..(LastHeader - 1) :
          /\ Len(file[j].nums) = 6
          /\ file[j].nums[6] = -5
    /\ \E j \in 1..(LastHeader - 1) : file[j].nums = << 3, 0, 0 >>

====
